---- MODULE Spec2Model ----
(***************************************************************************)
(* The matcher core of dirty-equals (src/dirty_equals/_base.py):           *)
(* DirtyEqualsMeta (comparison of a bare matcher type), DirtyEquals        *)
(* (__eq__, __ne__, value, __repr__), the combinators DirtyOr, DirtyAnd    *)
(* and DirtyNot, and the leaf matchers AnyThing and IsOneOf.               *)
(*                                                                         *)
(* Python objects live in a heap (a sequence of instances); a reference    *)
(* to an instance is its index.  Every Python value of the model has the   *)
(* same record shape [k, n, s] so that any two values can be compared.     *)
(***************************************************************************)
EXTENDS Naturals, Sequences, FiniteSets

VARIABLES heap, hist

vars == <<heap, hist>>

(***************************************************************************)
(* Bounds of the model.                                                    *)
(***************************************************************************)
\* the largest number of matcher instances a test builds
MaxObjs == 2

(***************************************************************************)
(* Python values.                                                          *)
(***************************************************************************)
IntV(i) == [k |-> "int", n |-> i, s |-> ""]
StrV(t) == [k |-> "str", n |-> 0, s |-> t]
NoneV == [k |-> "none", n |-> 0, s |-> ""]
\* typing.Generic and typing.Protocol, the classes named at line 26
Sentinel(t) == [k |-> "sentinel", n |-> 0, s |-> t]
\* a matcher type used bare (an instance of DirtyEqualsMeta)
Desc(c) == [k |-> "desc", n |-> 0, s |-> c]
\* a matcher instance, by its place in the heap
Inst(i) == [k |-> "inst", n |-> i, s |-> ""]

IsMatcher(v) == v.k \in {"desc", "inst"}

\* the values a test compares with a matcher: an int and a string; they are not
\* matchers, so their own == declines a matcher operand
PlainValues == {IntV(1), StrV("x")}
Sentinels == {Sentinel("Generic"), Sentinel("Protocol")}
OrdinaryValues == PlainValues \cup Sentinels

(***************************************************************************)
(* The matcher classes.                                                    *)
(***************************************************************************)
Combinators == {"DirtyOr", "DirtyAnd", "DirtyNot"}
\* leaf classes defined in _base.py
BaseLeaves == {"DirtyEquals", "AnyThing", "IsOneOf"}
\* leaf classes of the concrete matcher library
LibLeaves == {"IsInt", "IsJson"}
Classes == Combinators \cup BaseLeaves \cup LibLeaves

\* classes whose __init__ has a parameter without a default: cls() raises TypeError
RequiresArgs == Combinators \cup {"IsOneOf"}

\* the exceptions DirtyEquals.__eq__ and __ne__ catch
RecognizedErrors == {"TypeError", "ValueError"}
ErrorKinds == RecognizedErrors \cup {"NotImplementedError"}

Bool(b) == IF b THEN "True" ELSE "False"
Negate(r) == IF r = "True" THEN "False" ELSE "True"

(***************************************************************************)
(* The heap: instances with the two slots of DirtyEquals and the           *)
(* attributes the subclasses set.  A memory is the heap together with the  *)
(* number of zero-argument constructions self() the running operation has  *)
(* attempted.                                                              *)
(***************************************************************************)
NewInstance(cls, dirties, attrs) ==
    [cls |-> cls, dirties |-> dirties, attrs |-> attrs,
     other |-> NoneV, was_equal |-> "None"]

Mem(obj, ctor) == [obj |-> obj, ctor |-> ctor]

\* the outcome of an evaluation: a result (True, False or the exception raised)
\* and the memory it leaves
R(res, m) == [res |-> res, m |-> m]

SetOther(m, i, v) == [m EXCEPT !.obj[i].other = v]
SetWasEqual(m, i, b) == [m EXCEPT !.obj[i].was_equal = b]

\* DirtyOr(a, b), DirtyAnd(a, b), DirtyNot(subject): the children are kept in
\* dirties (DirtyNot's subject is its only entry)
DirtyOr(a, b) == NewInstance("DirtyOr", <<a, b>>, <<>>)
DirtyAnd(a, b) == NewInstance("DirtyAnd", <<a, b>>, <<>>)
DirtyNot(subject) == NewInstance("DirtyNot", <<subject>>, <<>>)
\* IsOneOf(expected_value, *more_expected_values): expected_values
IsOneOf(expected_values) == NewInstance("IsOneOf", expected_values, <<>>)
\* IsInt(*, lt=None) of the matcher library
IsInt(lt) == NewInstance("IsInt", <<>>, <<[name |-> "lt", val |-> lt]>>)

\* cls() with no arguments: TypeError when the constructor requires arguments
ZeroArgInstance(cls) ==
    IF cls = "IsInt" THEN IsInt(NoneV) ELSE NewInstance(cls, <<>>, <<>>)

Attr(o, name) ==
    LET hits == {j \in 1..Len(o.attrs) : o.attrs[j].name = name}
    IN  o.attrs[CHOOSE j \in hits : TRUE].val

(***************************************************************************)
(* equals of the library's leaves.                                         *)
(***************************************************************************)
\* IsInt.equals: a non-int is a TypeError; an int matches unless it is not below lt.
\* IsJson.equals: a string that is not JSON is a ValueError; a non-string is no match.
LibEquals(o, v) ==
    IF o.cls = "IsInt"
    THEN IF v.k # "int" THEN "TypeError"
         ELSE LET lt == Attr(o, "lt")
              IN  Bool(lt.k = "none" \/ v.n < lt.n)
    ELSE IF v.k = "str" THEN "ValueError" ELSE "False"

(***************************************************************************)
(* Comparison.                                                             *)
(***************************************************************************)
RECURSIVE PyEq(_, _, _)
RECURSIVE PyNe(_, _, _)
RECURSIVE DirtyEqualsMeta_eq(_, _, _)
RECURSIVE DirtyEquals_eq(_, _, _)
RECURSIVE DirtyEquals_ne(_, _, _)
RECURSIVE equals(_, _, _)
RECURSIVE DirtyOr_equals(_, _, _, _)
RECURSIVE DirtyAnd_equals(_, _, _, _)
RECURSIVE IsOneOf_equals(_, _, _, _)

\* Python tries the right operand's method first when its type is a proper
\* subclass of the left operand's type: every matcher class subclasses DirtyEquals
ReflectedFirst(l, r, m) ==
    /\ l.k = "inst" /\ r.k = "inst"
    /\ m.obj[l.n].cls = "DirtyEquals"
    /\ m.obj[r.n].cls # "DirtyEquals"

\* x == v decided by the matcher x
MatcherEq(x, v, m) ==
    IF x.k = "desc" THEN DirtyEqualsMeta_eq(x, v, m) ELSE DirtyEquals_eq(x.n, v, m)

\* x != v decided by the matcher x; DirtyEqualsMeta defines no __ne__, so
\* object.__ne__ inverts what __eq__ returns
MatcherNe(x, v, m) ==
    IF x.k = "desc"
    THEN LET r == DirtyEqualsMeta_eq(x, v, m)
         IN  IF r.res \in ErrorKinds THEN r ELSE R(Negate(r.res), r.m)
    ELSE DirtyEquals_ne(x.n, v, m)

\* an == in which a plain left operand answers by itself instead of declining
PyEq_leftdecides(l, r, m) ==
    IF IsMatcher(l)
    THEN IF ReflectedFirst(l, r, m) THEN MatcherEq(r, l, m) ELSE MatcherEq(l, r, m)
    ELSE R(Bool(l = r), m)

\* the expression  l == r
PyEq(l, r, m) ==
    IF IsMatcher(l)
    THEN IF ReflectedFirst(l, r, m) THEN MatcherEq(r, l, m) ELSE MatcherEq(l, r, m)
    ELSE IF IsMatcher(r) THEN MatcherEq(r, l, m)
         ELSE R(Bool(l = r), m)

\* the expression  l != r
PyNe(l, r, m) ==
    IF IsMatcher(l)
    THEN IF ReflectedFirst(l, r, m) THEN MatcherNe(r, l, m) ELSE MatcherNe(l, r, m)
    ELSE IF IsMatcher(r) THEN MatcherNe(r, l, m)
         ELSE R(Bool(l # r), m)

\* a DirtyEqualsMeta.__eq__ without the test of line 26
DirtyEqualsMeta_eq_unguarded(self, other, m) ==
    LET made == Mem(m.obj, m.ctor + 1)
    IN  IF self.s \in RequiresArgs
        THEN R("False", made)
        ELSE LET tmp == Len(m.obj) + 1
                 r == PyEq(Inst(tmp), other,
                           Mem(Append(m.obj, ZeroArgInstance(self.s)), made.ctor))
                 left == Mem(SubSeq(r.m.obj, 1, Len(m.obj)), r.m.ctor)
             IN  IF r.res = "TypeError" THEN R("False", left) ELSE R(r.res, left)

\* DirtyEqualsMeta.__eq__(self, other)
DirtyEqualsMeta_eq(self, other, m) ==
    IF self.s = "DirtyEquals" \/ other \in Sentinels
    THEN R("False", m)
    ELSE LET made == Mem(m.obj, m.ctor + 1)
         IN  IF self.s \in RequiresArgs
             THEN R("False", made)
             ELSE LET tmp == Len(m.obj) + 1
                      r == PyEq(Inst(tmp), other,
                                Mem(Append(m.obj, ZeroArgInstance(self.s)), made.ctor))
                      left == Mem(SubSeq(r.m.obj, 1, Len(m.obj)), r.m.ctor)
                  IN  IF r.res = "TypeError" THEN R("False", left) ELSE R(r.res, left)

\* a __eq__ that catches every exception
DirtyEquals_eq_swallow(self, other, m) ==
    LET r == equals(self, other, SetOther(m, self, other))
    IN  IF r.res \in ErrorKinds THEN R("False", SetWasEqual(r.m, self, "False"))
        ELSE R(r.res, SetWasEqual(r.m, self, r.res))

\* DirtyEquals.__eq__(self, other)
DirtyEquals_eq(self, other, m) ==
    LET r == equals(self, other, SetOther(m, self, other))
    IN  IF r.res \in RecognizedErrors THEN R("False", SetWasEqual(r.m, self, "False"))
        ELSE IF r.res \in ErrorKinds THEN r
        ELSE R(r.res, SetWasEqual(r.m, self, r.res))

\* a __ne__ that catches nothing
DirtyEquals_ne_raising(self, other, m) ==
    LET r == equals(self, other, SetOther(m, self, other))
    IN  IF r.res \in ErrorKinds THEN r ELSE R(Negate(r.res), r.m)

\* a __ne__ that records the outcome as __eq__ does
DirtyEquals_ne_recording(self, other, m) ==
    LET r == equals(self, other, SetOther(m, self, other))
    IN  IF r.res \in RecognizedErrors THEN R("True", SetWasEqual(r.m, self, "False"))
        ELSE IF r.res \in ErrorKinds THEN r
        ELSE R(Negate(r.res), SetWasEqual(r.m, self, r.res))

\* DirtyEquals.__ne__(self, other)
DirtyEquals_ne(self, other, m) ==
    LET r == equals(self, other, SetOther(m, self, other))
    IN  IF r.res \in RecognizedErrors THEN R("True", r.m)
        ELSE IF r.res \in ErrorKinds THEN r
        ELSE R(Negate(r.res), r.m)

\* a DirtyOr.equals that looks at its first child only
DirtyOr_equals_first(dirties, i, other, m) ==
    IF i > Len(dirties) THEN R("False", m) ELSE PyEq(dirties[i], other, m)

\* a DirtyOr.equals that compares every child before it answers
DirtyOr_equals_eager(dirties, i, other, m) ==
    IF i > Len(dirties) THEN R("False", m)
    ELSE LET r == PyEq(dirties[i], other, m)
             rest == DirtyOr_equals(dirties, i + 1, other, r.m)
         IN  IF r.res = "False" \/ rest.res \in ErrorKinds THEN rest ELSE R(r.res, rest.m)

\* DirtyOr.equals: any(d == other for d in self.dirties), from child i on
DirtyOr_equals(dirties, i, other, m) ==
    IF i > Len(dirties) THEN R("False", m)
    ELSE LET r == PyEq(dirties[i], other, m)
         IN  IF r.res = "False" THEN DirtyOr_equals(dirties, i + 1, other, r.m) ELSE r

\* DirtyAnd.equals: all(d == other for d in self.dirties), from child i on
DirtyAnd_equals(dirties, i, other, m) ==
    IF i > Len(dirties) THEN R("True", m)
    ELSE LET r == PyEq(dirties[i], other, m)
         IN  IF r.res = "True" THEN DirtyAnd_equals(dirties, i + 1, other, r.m) ELSE r

\* IsOneOf.equals: any(other == e for e in self.expected_values), from value i on
IsOneOf_equals(expected_values, i, other, m) ==
    IF i > Len(expected_values) THEN R("False", m)
    ELSE LET r == PyEq(other, expected_values[i], m)
         IN  IF r.res = "False" THEN IsOneOf_equals(expected_values, i + 1, other, r.m)
             ELSE r

\* self.equals(other), by the class of self
equals(self, other, m) ==
    LET o == m.obj[self]
    IN  CASE o.cls = "DirtyOr" -> DirtyOr_equals(o.dirties, 1, other, m)
          [] o.cls = "DirtyAnd" -> DirtyAnd_equals(o.dirties, 1, other, m)
          [] o.cls = "DirtyNot" -> PyNe(o.dirties[1], other, m)
          [] o.cls = "AnyThing" -> R("True", m)
          [] o.cls = "IsOneOf" -> IsOneOf_equals(o.dirties, 1, other, m)
          [] o.cls = "DirtyEquals" -> R("NotImplementedError", m)
          [] OTHER -> R(LibEquals(o, other), m)

(***************************************************************************)
(* Representation.                                                         *)
(***************************************************************************)
RECURSIVE Join(_, _)
\* sep.join(strs)
Join(strs, sep) ==
    IF Len(strs) = 0 THEN ""
    ELSE IF Len(strs) = 1 THEN strs[1]
    ELSE strs[1] \o sep \o Join(Tail(strs), sep)

Digits == <<"0", "1", "2", "3", "4", "5", "6", "7", "8", "9">>

\* inspect.signature(self.__init__).parameters, by class
_signature_params(cls) ==
    CASE cls = "IsInt" ->
           <<[name |-> "lt", kind |-> "KEYWORD_ONLY", has_default |-> TRUE,
              default |-> NoneV]>>
      [] cls = "IsOneOf" ->
           <<[name |-> "expected_value", kind |-> "POSITIONAL_OR_KEYWORD",
              has_default |-> FALSE, default |-> NoneV],
             [name |-> "more_expected_values", kind |-> "VAR_POSITIONAL",
              has_default |-> FALSE, default |-> NoneV]>>
      [] OTHER -> <<>>

HasAttr(o, name) == \E j \in 1..Len(o.attrs) : o.attrs[j].name = name

RECURSIVE ArgsOf(_, _, _)
\* the args list of DirtyEquals._repr_args_kwargs, from parameter i on
ArgsOf(o, params, i) ==
    IF i > Len(params) THEN <<>>
    ELSE LET p == params[i]
             rest == ArgsOf(o, params, i + 1)
         IN  IF ~HasAttr(o, p.name) THEN rest
             ELSE IF p.kind = "POSITIONAL_ONLY"
                     \/ (p.kind = "POSITIONAL_OR_KEYWORD" /\ ~p.has_default)
                  THEN <<Attr(o, p.name)>> \o rest
                  ELSE rest

RECURSIVE KwargsOf(_, _, _)
\* the kwargs dict of DirtyEquals._repr_args_kwargs, from parameter i on
KwargsOf(o, params, i) ==
    IF i > Len(params) THEN <<>>
    ELSE LET p == params[i]
             rest == KwargsOf(o, params, i + 1)
         IN  IF ~HasAttr(o, p.name) THEN rest
             ELSE IF p.kind = "KEYWORD_ONLY"
                     \/ (p.kind = "POSITIONAL_OR_KEYWORD" /\ p.has_default)
                  THEN <<[name |-> p.name, val |-> Attr(o, p.name)]>> \o rest
                  ELSE rest

\* _repr_args_kwargs: IsOneOf overrides it to (expected_values, {})
_repr_args_kwargs(o) ==
    IF o.cls = "IsOneOf"
    THEN [args |-> o.dirties, kwargs |-> <<>>]
    ELSE [args |-> ArgsOf(o, _signature_params(o.cls), 1),
          kwargs |-> KwargsOf(o, _signature_params(o.cls), 1)]

\* k in params and params[k].default == v
IsDefault(params, kw) ==
    \E j \in 1..Len(params) :
        params[j].name = kw.name /\ params[j].has_default /\ params[j].default = kw.val

RECURSIVE SelectShown(_, _)
\* the keyword arguments that differ from their default, in order
SelectShown(params, kwargs) ==
    IF Len(kwargs) = 0 THEN <<>>
    ELSE IF IsDefault(params, Head(kwargs)) THEN SelectShown(params, Tail(kwargs))
    ELSE <<Head(kwargs)>> \o SelectShown(params, Tail(kwargs))

RECURSIVE repr(_, _)
RECURSIVE DirtyEquals_repr(_, _)
RECURSIVE _repr_ne(_, _)
RECURSIVE ReprEach(_, _)
RECURSIVE ReprNeEach(_, _)
RECURSIVE ReprKwargs(_, _)

\* repr(v)
repr(v, obj) ==
    CASE v.k = "int" -> Digits[v.n + 1]
      [] v.k = "str" -> "'" \o v.s \o "'"
      [] v.k = "none" -> "None"
      [] v.k = "sentinel" -> "<class 'typing." \o v.s \o "'>"
      [] v.k = "desc" -> v.s
      [] v.k = "inst" -> DirtyEquals_repr(v.n, obj)

ReprEach(vs, obj) ==
    IF Len(vs) = 0 THEN <<>>
    ELSE <<repr(Head(vs), obj)>> \o ReprEach(Tail(vs), obj)

ReprNeEach(vs, obj) ==
    IF Len(vs) = 0 THEN <<>>
    ELSE <<_repr_ne(Head(vs), obj)>> \o ReprNeEach(Tail(vs), obj)

ReprKwargs(kwargs, obj) ==
    IF Len(kwargs) = 0 THEN <<>>
    ELSE <<Head(kwargs).name \o "=" \o repr(Head(kwargs).val, obj)>>
         \o ReprKwargs(Tail(kwargs), obj)

\* a _repr_ne that renders a child by its __repr__
_repr_ne_by_repr(v, obj) ==
    IF v.k = "desc" THEN v.s
    ELSE LET o == obj[v.n]
         IN  CASE o.cls = "DirtyOr" -> Join(ReprEach(o.dirties, obj), " | ")
               [] o.cls = "DirtyAnd" -> Join(ReprEach(o.dirties, obj), " & ")
               [] o.cls = "DirtyNot" -> "~" \o repr(o.dirties[1], obj)
               [] OTHER ->
                    LET params == _signature_params(o.cls)
                        ak == _repr_args_kwargs(o)
                        args_reprs == ReprEach(ak.args, obj)
                                      \o ReprKwargs(SelectShown(params, ak.kwargs), obj)
                    IN  o.cls \o "(" \o Join(args_reprs, ", ") \o ")"

\* the module function _repr_ne(v) and the _repr_ne methods it calls
_repr_ne(v, obj) ==
    IF v.k = "desc" THEN v.s
    ELSE LET o == obj[v.n]
         IN  CASE o.cls = "DirtyOr" -> Join(ReprNeEach(o.dirties, obj), " | ")
               [] o.cls = "DirtyAnd" -> Join(ReprNeEach(o.dirties, obj), " & ")
               [] o.cls = "DirtyNot" -> "~" \o _repr_ne(o.dirties[1], obj)
               [] OTHER ->
                    LET params == _signature_params(o.cls)
                        ak == _repr_args_kwargs(o)
                        args_reprs == ReprEach(ak.args, obj)
                                      \o ReprKwargs(SelectShown(params, ak.kwargs), obj)
                    IN  o.cls \o "(" \o Join(args_reprs, ", ") \o ")"

\* DirtyEquals.__repr__
DirtyEquals_repr(self, obj) ==
    IF obj[self].was_equal = "True"
    THEN repr(obj[self].other, obj)
    ELSE _repr_ne(Inst(self), obj)

\* DirtyEquals.value
DirtyEquals_value(self, obj) ==
    IF obj[self].was_equal = "True"
    THEN [res |-> "ok", val |-> obj[self].other]
    ELSE [res |-> "AttributeError", val |-> NoneV]

(***************************************************************************)
(* The state machine.  heap holds the matcher instances a test has built;  *)
(* a comparison changes the captured state of the instances it reaches.    *)
(* value and repr read the state and change nothing (the operators         *)
(* DirtyEquals_value and repr), and so does the comparison of a bare       *)
(* matcher type with a value that is no matcher (DirtyEqualsMeta_eq).      *)
(*                                                                         *)
(* hist is a history variable: for each instance, whether the comparison   *)
(* the test made last on it matched, and the input of the most recent ==   *)
(* on it that returned True.  Only TrackedEqual and TrackedNotEqual        *)
(* write it.                                                               *)
(***************************************************************************)
\* the matcher types a test uses bare
Descs == {Desc(c) : c \in {"DirtyEquals", "AnyThing", "IsOneOf", "IsInt"}}

\* the bare types a test combines with | and &
ChildDescs == {Desc("IsInt"), Desc("IsOneOf")}

Insts(obj) == {Inst(i) : i \in 1..Len(obj)}

\* the matchers a test can name: bare types and the instances built so far
Refs(obj) == Descs \cup Insts(obj)

\* the leaf instances a test constructs
LeafInstances ==
    {NewInstance("DirtyEquals", <<>>, <<>>), NewInstance("IsJson", <<>>, <<>>),
     IsOneOf(<<IntV(1)>>), IsInt(NoneV), IsInt(IntV(1))}

NoHistory == [compared |-> FALSE, matched |-> FALSE, good |-> NoneV]

Init ==
    /\ heap = <<>>
    /\ hist = <<>>

\* a leaf matcher is constructed with arguments
Construct ==
    /\ Len(heap) < MaxObjs
    /\ \E o \in LeafInstances : heap' = Append(heap, o)
    /\ hist' = Append(hist, NoHistory)

\* a | b  (DirtyEqualsMeta.__or__, DirtyEquals.__or__)
Or ==
    /\ Len(heap) < MaxObjs
    /\ \E a, b \in ChildDescs \cup Insts(heap) : heap' = Append(heap, DirtyOr(a, b))
    /\ hist' = Append(hist, NoHistory)

\* a & b  (DirtyEqualsMeta.__and__, DirtyEquals.__and__)
And ==
    /\ Len(heap) < MaxObjs
    /\ \E a, b \in ChildDescs \cup Insts(heap) : heap' = Append(heap, DirtyAnd(a, b))
    /\ hist' = Append(hist, NoHistory)

\* ~a  (DirtyEqualsMeta.__invert__, DirtyEquals.__invert__)
Invert ==
    /\ Len(heap) < MaxObjs
    /\ \E a \in Refs(heap) : heap' = Append(heap, DirtyNot(a))
    /\ hist' = Append(hist, NoHistory)

\* the test evaluates  v == x  for an instance x
Equal ==
    /\ \E x \in Insts(heap), v \in PlainValues : heap' = PyEq(v, x, Mem(heap, 0)).m.obj
    /\ UNCHANGED hist

\* the test evaluates  v != x  for an instance x
NotEqual ==
    /\ \E x \in Insts(heap), v \in PlainValues : heap' = PyNe(v, x, Mem(heap, 0)).m.obj
    /\ UNCHANGED hist

Next == Construct \/ Or \/ And \/ Invert \/ Equal \/ NotEqual

Spec == Init /\ [][Next]_vars

(***************************************************************************)
(* The same comparisons on leaf instances, with their history recorded.    *)
(***************************************************************************)
\* the history of x after a comparison with v whose equals ended in raw
\* (is_eq: the comparison was ==)
Recorded(h, raw, v, is_eq) ==
    [compared |-> TRUE,
     matched |-> (raw = "True"),
     good |-> IF is_eq /\ raw = "True" THEN v ELSE h.good]

\* what a comparison of x with v leaves: the heap, and the history of x
\* (raw: what v == x returns)
Track(x, v, out, raw, is_eq) ==
    /\ heap' = out.m.obj
    /\ hist' = [hist EXCEPT ![x.n] = Recorded(hist[x.n], raw, v, is_eq)]

\* v == x, recorded
TrackedEqual ==
    \E x \in Insts(heap), v \in PlainValues :
        Track(x, v, PyEq(v, x, Mem(heap, 0)), PyEq(v, x, Mem(heap, 0)).res, TRUE)

\* v != x, recorded
TrackedNotEqual ==
    \E x \in Insts(heap), v \in PlainValues :
        Track(x, v, PyNe(v, x, Mem(heap, 0)), PyEq(v, x, Mem(heap, 0)).res, FALSE)

NextLeaves == Construct \/ TrackedEqual \/ TrackedNotEqual

SpecLeaves == Init /\ [][NextLeaves]_vars

(***************************************************************************)
(* Helpers of the properties.                                              *)
(***************************************************************************)
Booleans == {"True", "False"}

\* what  x == v  returns in the current state
Matches(x, v) == PyEq(x, v, Mem(heap, 0)).res

\* the table of Matches over the matchers and values of the current state
MatchTable == [x \in Refs(heap) |-> [v \in PlainValues |-> Matches(x, v)]]

\* what  v == (x | c)  and  v == (x & c)  return, the combinator built now
ChainedOr(x, c, v) ==
    PyEq(v, Inst(Len(heap) + 1), Mem(Append(heap, DirtyOr(x, c)), 0)).res

ChainedAnd(x, c, v) ==
    PyEq(v, Inst(Len(heap) + 1), Mem(Append(heap, DirtyAnd(x, c)), 0)).res

\* a comparison that returns is True iff some child's own == is True; one that
\* raises does so with the error a child's own == raises (own: the results of
\* the children's own ==)
OrAgrees(res, own) ==
    IF res \in Booleans THEN res = "True" <=> "True" \in own ELSE res \in own

\* ... iff every child's own == is True
AndAgrees(res, own) ==
    IF res \in Booleans THEN res = "True" <=> own = {"True"} ELSE res \in own

(***************************************************************************)
(* C1.  For all child matchers (bare types or instances, in any mix) and   *)
(* every value v: v == (A | B) and v == (A | B | C), the latter built by   *)
(* chaining |, are True iff at least one child's own == is True for v, and *)
(* v == (A & B), v == (A & B & C) are True iff every child's own == is     *)
(* True for v.  (A comparison that raises returns nothing; it raises only  *)
(* an error that a child's own == raises.)                                 *)
(***************************************************************************)
C1_OrAndMatchIffChildren ==
    LET own == MatchTable
    IN  \A i \in 1..Len(heap) : \A v \in PlainValues :
            LET a == heap[i].dirties[1]
                b == heap[i].dirties[2]
            IN  /\ heap[i].cls = "DirtyOr" =>
                      /\ OrAgrees(Matches(Inst(i), v), {own[a][v], own[b][v]})
                      /\ \A c \in Refs(heap) :
                            OrAgrees(ChainedOr(Inst(i), c, v),
                                     {own[a][v], own[b][v], own[c][v]})
                /\ heap[i].cls = "DirtyAnd" =>
                      /\ AndAgrees(Matches(Inst(i), v), {own[a][v], own[b][v]})
                      /\ \A c \in Refs(heap) :
                            AndAgrees(ChainedAnd(Inst(i), c, v),
                                      {own[a][v], own[b][v], own[c][v]})

\* a chained (IsOneOf | IsOneOf) | IsInt has matched through its last child
\* after the inner Or failed
C1_Witness ==
    /\ Len(heap) = 2
    /\ heap[1].cls = "DirtyOr" /\ heap[1].dirties = <<Desc("IsOneOf"), Desc("IsOneOf")>>
    /\ heap[2].cls = "DirtyOr" /\ heap[2].dirties = <<Inst(1), Desc("IsInt")>>
    /\ heap[2].was_equal = "True" /\ heap[1].was_equal = "False"

(***************************************************************************)
(* C2.  For every matcher M (bare type or instance, including one whose    *)
(* equals raises a recognized error and a bare type whose zero-argument    *)
(* construction fails) and every value v: v == ~M is True iff v == M is    *)
(* False, and v == ~~M returns what v == M returns.                        *)
(***************************************************************************)
\* what  v == ~M  returns, ~M built now
Negated(M, v) ==
    PyEq(v, Inst(Len(heap) + 1), Mem(Append(heap, DirtyNot(M)), 0)).res

\* what  v == ~~M  returns, ~~M built now
DoublyNegated(M, v) ==
    PyEq(v, Inst(Len(heap) + 2),
         Mem(heap \o <<DirtyNot(M), DirtyNot(Inst(Len(heap) + 1))>>, 0)).res

C2_NotNegates ==
    \A M \in Refs(heap) : \A v \in PlainValues :
        LET direct == PyEq(v, M, Mem(heap, 0)).res
        IN  /\ Negated(M, v) = "True" <=> direct = "False"
            /\ DoublyNegated(M, v) = direct

\* ~~IsOneOf, over a bare type that cannot be constructed without arguments, has
\* been compared with 1: ~IsOneOf matched it and ~~IsOneOf did not
C2_Witness ==
    /\ Len(heap) = 2
    /\ heap[1].cls = "DirtyNot" /\ heap[1].dirties = <<Desc("IsOneOf")>>
    /\ heap[2].cls = "DirtyNot" /\ heap[2].dirties = <<Inst(1)>>
    /\ heap[2].other = IntV(1) /\ heap[2].was_equal = "False"
    /\ heap[1].other = IntV(1)

(***************************************************************************)
(* C3.  For every matcher instance and input value: == returns False       *)
(* without raising when equals raises TypeError or ValueError, and an      *)
(* error of any other kind raised by equals propagates out of == and out   *)
(* of != instead of being reported as a mismatch.                          *)
(***************************************************************************)
\* what self.equals(v) ends in when == or != calls it
RawEquals(i, v) == equals(i, v, SetOther(Mem(heap, 0), i, v)).res

C3_OnlyRecognizedErrorsSwallowed ==
    \A i \in 1..Len(heap) : \A v \in PlainValues :
        LET raw == RawEquals(i, v)
        IN  /\ raw \in RecognizedErrors => DirtyEquals_eq(i, v, Mem(heap, 0)).res = "False"
            /\ raw \in ErrorKinds \ RecognizedErrors =>
                  /\ DirtyEquals_eq(i, v, Mem(heap, 0)).res = raw
                  /\ DirtyEquals_ne(i, v, Mem(heap, 0)).res = raw

\* == has swallowed the TypeError of an IsInt and the ValueError of an IsJson
C3_Witness ==
    /\ Len(heap) = 2
    /\ heap[1].cls = "IsInt" /\ heap[2].cls = "IsJson"
    /\ RawEquals(1, StrV("x")) = "TypeError" /\ RawEquals(2, StrV("x")) = "ValueError"
    /\ heap[1].other = StrV("x") /\ heap[1].was_equal = "False"
    /\ heap[2].other = StrV("x") /\ heap[2].was_equal = "False"

(***************************************************************************)
(* C4.  For every bare matcher type D and every value v: D == v returns    *)
(* what a freshly constructed D() == v returns when D() succeeds; it       *)
(* returns False without raising when D() fails for want of arguments; and *)
(* when D is DirtyEquals itself, or v is Generic or Protocol, it returns   *)
(* False without raising and without constructing anything.                *)
(***************************************************************************)
AllDescs == {Desc(c) : c \in Classes}

\* what  D() == v  returns for a fresh D()
FreshInstanceEq(D, v) ==
    PyEq(Inst(Len(heap) + 1), v, Mem(Append(heap, ZeroArgInstance(D.s)), 0)).res

C4_BareTypeDelegates ==
    \A D \in AllDescs : \A v \in OrdinaryValues :
        LET out == DirtyEqualsMeta_eq(D, v, Mem(heap, 0))
        IN  /\ out.m.obj = heap
            /\ IF D.s = "DirtyEquals" \/ v \in Sentinels
               THEN out.res = "False" /\ out.m.ctor = 0
               ELSE IF D.s \in RequiresArgs
               THEN out.res = "False"
               ELSE out.res = FreshInstanceEq(D, v)

\* IsOneOf | IsInt has matched 1: IsOneOf == 1 was False (IsOneOf() fails) and
\* IsInt == 1 was what IsInt() == 1 is
C4_Witness ==
    \E i \in 1..Len(heap) :
        /\ heap[i].cls = "DirtyOr"
        /\ heap[i].dirties = <<Desc("IsOneOf"), Desc("IsInt")>>
        /\ heap[i].other = IntV(1) /\ heap[i].was_equal = "True"

(***************************************************************************)
(* C5.  For every matcher instance in any state and every input v: !=      *)
(* returns the negation of what == would return for v (True when equals    *)
(* raises a recognized error), overwrites the captured value with v, and   *)
(* leaves the stored outcome flag was_equal as it was before the call.     *)
(***************************************************************************)
C5_NeKeepsFlag ==
    \A i \in 1..Len(heap) : \A v \in PlainValues :
        LET ne == DirtyEquals_ne(i, v, Mem(heap, 0))
            eq == DirtyEquals_eq(i, v, Mem(heap, 0))
        IN  /\ eq.res \in Booleans => ne.res = Negate(eq.res)
            /\ RawEquals(i, v) \in RecognizedErrors => ne.res = "True"
            /\ ne.m.obj[i].other = v
            /\ ne.m.obj[i].was_equal = heap[i].was_equal

\* after 1 == m matched, "x" != m has overwritten the captured value and kept
\* the flag; and a != on a fresh instance has left its flag unset
C5_Witness ==
    /\ Len(heap) = 2
    /\ heap[1].cls = "IsOneOf"
    /\ heap[1].other = StrV("x") /\ heap[1].was_equal = "True"
    /\ heap[2].other = IntV(1) /\ heap[2].was_equal = "None"

(***************************************************************************)
(* The constructor-call form of a leaf, written out per class, and the     *)
(* structure of a combinator built from it: the texts the claims about     *)
(* repr are measured against.                                              *)
(***************************************************************************)
CallForm(o) ==
    CASE o.cls = "IsInt" ->
            IF Attr(o, "lt") = NoneV THEN "IsInt()"
            ELSE "IsInt(lt=" \o Digits[Attr(o, "lt").n + 1] \o ")"
      [] o.cls = "IsOneOf" ->
            "IsOneOf(" \o Join([j \in 1..Len(o.dirties) |-> repr(o.dirties[j], <<>>)], ", ")
            \o ")"
      [] OTHER -> o.cls \o "()"

RECURSIVE Structure(_, _)

Structure(v, obj) ==
    IF v.k = "desc" THEN v.s
    ELSE LET o == obj[v.n]
         IN  CASE o.cls = "DirtyOr" ->
                    Structure(o.dirties[1], obj) \o " | " \o Structure(o.dirties[2], obj)
               [] o.cls = "DirtyAnd" ->
                    Structure(o.dirties[1], obj) \o " & " \o Structure(o.dirties[2], obj)
               [] o.cls = "DirtyNot" -> "~" \o Structure(o.dirties[1], obj)
               [] OTHER -> CallForm(o)

(***************************************************************************)
(* C6.  For every leaf instance: reading value raises when no comparison   *)
(* has been made or when the last comparison did not match, and otherwise  *)
(* returns the input of the most recent == that returned True.  Where the  *)
(* last comparison was a != that matched and no == has returned True yet,  *)
(* nothing is required.                                                    *)
(***************************************************************************)
C6_ValueIsLastMatch ==
    \A i \in 1..Len(heap) :
        LET out == DirtyEquals_value(i, heap)
        IN  IF ~hist[i].compared \/ ~hist[i].matched
            THEN out.res = "AttributeError"
            ELSE hist[i].good # NoneV => out.res = "ok" /\ out.val = hist[i].good

(***************************************************************************)
(* C7.  For every leaf instance: when was_equal is True its repr is the    *)
(* repr of the value that matched (the input of the == that set the flag), *)
(* and otherwise its repr is the constructor-call form Name(args, kw=val)  *)
(* with the keyword arguments that equal their defaults left out.          *)
(***************************************************************************)
C7_LeafReprShowsMatch ==
    \A i \in 1..Len(heap) :
        IF heap[i].was_equal = "True"
        THEN DirtyEquals_repr(i, heap) = repr(hist[i].good, heap)
        ELSE DirtyEquals_repr(i, heap) = CallForm(heap[i])

(***************************************************************************)
(* C8.  As stated: for every combinator instance in every state, repr is   *)
(* its structure (children joined by | or &, or prefixed by ~, each in its *)
(* own not-equal form), never a matched value.                             *)
(***************************************************************************)
IsCombinator(i) == heap[i].cls \in Combinators

C8_CombinatorReprIsStructure ==
    \A i \in 1..Len(heap) :
        IsCombinator(i) => DirtyEquals_repr(i, heap) = Structure(Inst(i), heap)

(***************************************************************************)
(* C8, amended.  For every combinator instance: its not-equal form is its  *)
(* structure with every child in its own not-equal form, whatever the      *)
(* children's own outcomes; repr is that structure as long as the          *)
(* combinator's own was_equal is not True, and the repr of the captured    *)
(* value once it is.                                                       *)
(***************************************************************************)
C8_CombinatorReprUnlessMatched ==
    \A i \in 1..Len(heap) :
        IsCombinator(i) =>
            /\ _repr_ne(Inst(i), heap) = Structure(Inst(i), heap)
            /\ heap[i].was_equal # "True" =>
                  DirtyEquals_repr(i, heap) = Structure(Inst(i), heap)
            /\ heap[i].was_equal = "True" =>
                  DirtyEquals_repr(i, heap) = repr(heap[i].other, heap)

\* IsOneOf(1) & IsOneOf has failed on 1 after its first child matched it, and
\* still shows the child as IsOneOf(1)
C8_Witness ==
    /\ Len(heap) = 2
    /\ heap[2].cls = "DirtyAnd" /\ heap[2].dirties = <<Inst(1), Desc("IsOneOf")>>
    /\ heap[1].cls = "IsOneOf" /\ heap[1].was_equal = "True"
    /\ heap[2].was_equal = "False"
    /\ DirtyEquals_repr(1, heap) = "1"
    /\ DirtyEquals_repr(2, heap) = "IsOneOf(1) & IsOneOf"

RECURSIVE ReachedFrom(_, _)

\* the instances an evaluation of v can touch: v and its descendants
ReachedFrom(v, obj) ==
    IF v.k # "inst" THEN {}
    ELSE {v.n} \cup
         IF obj[v.n].cls \in Combinators
         THEN UNION {ReachedFrom(obj[v.n].dirties[j], obj) : j \in 1..Len(obj[v.n].dirties)}
         ELSE {}

\* the position of the child that decides: the first whose own result is not
\* the one that lets the evaluation move on
Decider(kids, go_on, v) ==
    LET stops == {j \in 1..Len(kids) : MatchTable[kids[j]][v] # go_on}
    IN  IF stops = {} THEN Len(kids) ELSE CHOOSE j \in stops : \A k \in stops : j <= k

(***************************************************************************)
(* C10.  As stated: for every Or / And instance and input v, every         *)
(* instance child up to and including the deciding child ends with         *)
(* captured value v and its own result for v as outcome flag, and every    *)
(* instance child at a later position keeps its captured value and outcome *)
(* flag; a Not changes its child's captured value only.                    *)
(***************************************************************************)
C10_LaterChildrenUnchanged ==
    \A i \in 1..Len(heap) : \A v \in PlainValues :
        LET after == DirtyEquals_eq(i, v, Mem(heap, 0)).m.obj
            kids == heap[i].dirties
        IN  /\ heap[i].cls \in {"DirtyOr", "DirtyAnd"} =>
                LET d == Decider(kids, IF heap[i].cls = "DirtyOr" THEN "False" ELSE "True", v)
                IN  /\ \A j \in 1..d :
                          kids[j].k = "inst" =>
                              /\ after[kids[j].n].other = v
                              /\ MatchTable[kids[j]][v] \in Booleans =>
                                    after[kids[j].n].was_equal = MatchTable[kids[j]][v]
                    /\ \A j \in (d + 1)..Len(kids) :
                          kids[j].k = "inst" => after[kids[j].n] = heap[kids[j].n]
            /\ heap[i].cls = "DirtyNot" /\ kids[1].k = "inst" =>
                  /\ after[kids[1].n].other = v
                  /\ after[kids[1].n].was_equal = heap[kids[1].n].was_equal

(***************************************************************************)
(* C10, amended.  For every Or / And instance and input v: the children up *)
(* to and including the first one that decides the result have captured v  *)
(* and recorded their own outcome; every object the evaluation does not    *)
(* reach through those children (a later child that is not also an earlier *)
(* child or a descendant of one) is left exactly as it was.  For every Not *)
(* over an instance: the child has captured v and keeps its outcome flag.  *)
(***************************************************************************)
C10_ShortCircuitFrame ==
    \A i \in 1..Len(heap) : \A v \in PlainValues :
        LET after == DirtyEquals_eq(i, v, Mem(heap, 0)).m.obj
            kids == heap[i].dirties
        IN  /\ heap[i].cls \in {"DirtyOr", "DirtyAnd"} =>
                LET d == Decider(kids, IF heap[i].cls = "DirtyOr" THEN "False" ELSE "True", v)
                    reached == UNION {ReachedFrom(kids[j], heap) : j \in 1..d}
                IN  /\ \A j \in 1..d :
                          kids[j].k = "inst" =>
                              /\ after[kids[j].n].other = v
                              /\ MatchTable[kids[j]][v] \in Booleans =>
                                    after[kids[j].n].was_equal = MatchTable[kids[j]][v]
                    /\ \A n \in 1..Len(heap) :
                          n # i /\ n \notin reached => after[n] = heap[n]
            /\ heap[i].cls = "DirtyNot" /\ kids[1].k = "inst" =>
                  /\ after[kids[1].n].other = v
                  /\ after[kids[1].n].was_equal = heap[kids[1].n].was_equal

\* IsInt | m was first compared with "x", which went on to the child m, and then
\* with 1, which IsInt decided: m still holds "x"
C10_Witness ==
    /\ Len(heap) = 2
    /\ heap[2].cls = "DirtyOr" /\ heap[2].dirties = <<Desc("IsInt"), Inst(1)>>
    /\ heap[2].other = IntV(1) /\ heap[2].was_equal = "True"
    /\ heap[1].other = StrV("x") /\ heap[1].was_equal = "False"

====
